---- MODULE Spec2Model ----
(***************************************************************************)
(* Model of handle_signal (src/src/ptrace.rs): the bounded-wait            *)
(* wait/classify/resume routine of the tracer.  One invocation is a        *)
(* sequence of blocking OS calls; every action below is one such call      *)
(* together with all the code that runs up to the next call.  The outcome  *)
(* of each call (success, errno, wait status) is chosen by the OS.         *)
(***************************************************************************)
EXTENDS Integers, Sequences, FiniteSets

(* ---- bounds ---------------------------------------------------------- *)
\* exit codes reported by waitpid range over 0..MaxExitCode
MaxExitCode == 1
\* caller-supplied epoll timeouts range over -1..MaxTimeout (-1 = block)
MaxTimeout == 0

(* ---- libc constants (x86_64 linux) ----------------------------------- *)
SIGTRAP == 5
SIGSTOP == 19
SIGTSTP == 20
SIGTTIN == 21
SIGTTOU == 22
SIGINT == 2
SIGSEGV == 11
EINVAL == 22
ESRCH == 3
PTRACE_ATTACH == 16
PTRACE_SEIZE == 16902
PTRACE_EVENT_FORK == 1
PTRACE_EVENT_VFORK == 2
PTRACE_EVENT_CLONE == 3
PTRACE_EVENT_EXEC == 4
PTRACE_EVENT_VFORK_DONE == 5
PTRACE_EVENT_EXIT == 6
PTRACE_EVENT_SECCOMP == 7
PTRACE_EVENT_STOP == 128
PTRACE_O_TRACESYSGOOD == 1
PTRACE_O_TRACEFORK == 2
PTRACE_O_TRACECLONE == 8
PTRACE_O_TRACEEXEC == 16
PTRACE_O_TRACEVFORKDONE == 32
PTRACE_O_TRACEEXIT == 64
PTRACE_O_TRACESECCOMP == 128

\* variant: the syscall marker bit left out
SIGTRAP_SYSCALL_Unmarked == SIGTRAP

\* const SIGTRAP_SYSCALL: c_int = SIGTRAP | 0x80  (bit 7 of SIGTRAP is clear)
SIGTRAP_SYSCALL == SIGTRAP + 128

(* ---- integer helpers ------------------------------------------------- *)
\* x >> n on a c_int (arithmetic shift = floor division)
Shr(x, n) == x \div (2 ^ n)

\* (x & flag) != 0 for a single-bit flag
HasFlag(x, flag) == (x \div flag) % 2 = 1

(* ---- wait-status decoding (libc macros used by the code) -------------- *)
WIFSTOPPED(s) == (s % 256) = 127

WSTOPSIG(s) == Shr(s, 8) % 256

WIFEXITED(s) == (s % 128) = 0

\* ((s & 0x7f) + 1) as i8 >= 2
WIFSIGNALED(s) == (s % 128) \in 1..126

(* ---- std::io::Error::kind() ------------------------------------------- *)
ErrorKind(e) ==
    CASE e = EINVAL -> "InvalidInput"
      [] e = 4      -> "Interrupted"
      [] OTHER      -> "Uncategorized"

(* ---- inputs ----------------------------------------------------------- *)
AttachModes == {PTRACE_ATTACH, PTRACE_SEIZE}

OptionMasks == 0..255

Timeouts == (-1)..MaxTimeout

Errnos == {EINVAL, ESRCH}

\* stop signals the kernel reports; SIGTRAP + 128 is a syscall stop under SYSGOOD
StopSignals == {SIGTRAP, SIGTRAP + 128, SIGSTOP, SIGTSTP, SIGTTIN, SIGTTOU, SIGINT}

\* 9 stands for an event code the kernel does not define
EventCodes == {0, PTRACE_EVENT_FORK, PTRACE_EVENT_VFORK, PTRACE_EVENT_CLONE,
               PTRACE_EVENT_EXEC, PTRACE_EVENT_VFORK_DONE, PTRACE_EVENT_EXIT,
               PTRACE_EVENT_SECCOMP, PTRACE_EVENT_STOP, 9}

\* status word of a ptrace stop: event code in bits 16+, signal in bits 8..15
StoppedStatus(sig, ev) == ev * 65536 + sig * 256 + 127

ExitedStatus(code) == code * 256

\* terminated by sig, with or without the core-dump flag (0x80)
SignaledStatus(sig, core) == sig + (IF core THEN 128 ELSE 0)

\* what waitpid(pid, &status, __WALL) can store: stopped, exited, terminated
WaitStatuses ==
    {StoppedStatus(sig, ev) : sig \in StopSignals, ev \in EventCodes}
    \cup {ExitedStatus(c) : c \in 0..MaxExitCode}
    \cup {SignaledStatus(SIGSEGV, core) : core \in BOOLEAN}

(* ---- values ----------------------------------------------------------- *)
NoStatus == -1

\* nready before epoll_wait has returned
NotWaited == -2

None == [kind |-> "none", val |-> 0]

Ok(s) == [kind |-> "ok", val |-> s]

Err(e) == [kind |-> "err", val |-> e]

\* one OS call: its name, its significant argument, its errno (0 = success)
Call(op, arg, errno) == [op |-> op, arg |-> arg, errno |-> errno]

(* ---- classification of a stopped status (lines 102-177) -------------- *)
\* variant: the event code taken from the full status word
TrapEvent_FromStatus(st, signal) == Shr(st, 16)

\* the value matched by the inner match of the SIGTRAP arm: signal >> 16
TrapEvent(st, signal) == Shr(signal, 16)

\* inner match of the SIGTRAP arm: TRUE = break Ok(status), FALSE = falls out
TrapMatch(ev, att, opts) ==
    CASE ev = PTRACE_EVENT_VFORK /\ HasFlag(opts, PTRACE_O_TRACEFORK) -> TRUE
      [] ev = PTRACE_EVENT_FORK /\ HasFlag(opts, PTRACE_O_TRACEFORK) -> TRUE
      [] ev = PTRACE_EVENT_CLONE /\ HasFlag(opts, PTRACE_O_TRACECLONE) -> TRUE
      [] ev = PTRACE_EVENT_VFORK_DONE /\ HasFlag(opts, PTRACE_O_TRACEVFORKDONE) -> TRUE
      [] ev = PTRACE_EVENT_EXEC /\ HasFlag(opts, PTRACE_O_TRACEEXEC) -> TRUE
      [] ev = PTRACE_EVENT_EXIT /\ HasFlag(opts, PTRACE_O_TRACEEXIT) -> TRUE
      [] ev = PTRACE_EVENT_STOP /\ att = PTRACE_SEIZE -> TRUE
      [] ev = PTRACE_EVENT_SECCOMP /\ HasFlag(opts, PTRACE_O_TRACESECCOMP) -> TRUE
      [] OTHER -> ev # 0

\* variant: the group-stop marker always leaves the match for the probe
GroupStopMatch_MarkerFalls(ev, att) == ev \notin {0, PTRACE_EVENT_STOP}

\* match status >> 16 of the job-control arm: TRUE = break Ok(status)
GroupStopMatch(ev, att) ==
    CASE ev = PTRACE_EVENT_STOP /\ att = PTRACE_SEIZE -> TRUE
      [] OTHER -> ev # 0

\* variant: SIGINT listed among the job-control stop signals
JobControlSignals_WithInt == {SIGSTOP, SIGTSTP, SIGTTIN, SIGTTOU, SIGINT}

\* line 151: SIGSTOP | SIGTSTP | SIGTTIN | SIGTTOU
JobControlSignals == {SIGSTOP, SIGTSTP, SIGTTIN, SIGTTOU}

\* what the stopped branch does with a status before any further OS call:
\* "break" = break Ok(status), "probe" = get_siginfo next, "cont" = cont next
Classify(st, att, opts) ==
    LET signal == WSTOPSIG(st) IN
    IF signal = SIGTRAP
    THEN IF TrapMatch(TrapEvent(st, signal), att, opts) THEN "break" ELSE "cont"
    ELSE IF signal = SIGTRAP_SYSCALL /\ HasFlag(opts, PTRACE_O_TRACESYSGOOD)
    THEN "break"
    ELSE IF signal \in JobControlSignals
    THEN IF GroupStopMatch(Shr(st, 16), att) THEN "break"
         ELSE IF att # PTRACE_SEIZE THEN "probe" ELSE "cont"
    ELSE "cont"

\* variant: the exit check lets every status break
ExitCheck_Always(st) == TRUE

\* variant: only a normal exit is terminal
ExitCheck_ExitedOnly(st) == WIFEXITED(st)

\* lines 182-186: TRUE = break Ok(status), FALSE = unreachable!()
ExitCheck(st) == WIFEXITED(st) \/ WIFSIGNALED(st)

\* variant: the loop is continued instead of reaching unreachable!()
LoopTail_Continue(st) == IF ExitCheck(st) THEN "epoll_close" ELSE "epoll_ctl"

\* lines 182-186, the end of the loop body: where control goes next
LoopTail(st) == IF ExitCheck(st) THEN "epoll_close" ELSE "abort"

\* variant: the resume forwards no signal
ContSignal_None(st) == 0

\* line 179: the signal handed to cont is the stop signal of line 102
ContSignal(st) == WSTOPSIG(st)

\* variant: a timed-out readiness wait counts as a failure
EpollWaitOk_ReadyOnly(n) == n > 0

\* lines 57-62: epoll_wait fails only when the call returns -1
EpollWaitOk(n) == n # -1

\* what epoll_wait(epfd, &events, 1, timeout) can return: -1 on error, 1 when
\* the descriptor is ready, 0 when a timeout >= 0 elapsed first
EpollWaitReturns(t) == IF t < 0 THEN {-1, 1} ELSE {-1, 0, 1}

\* variant: the close error is dropped
CloseReturn_IgnoreError(e, res) == res

\* lines 189-190: epoll_close(epfd)?; return result
CloseReturn(e, res) == IF e # 0 THEN Err(e) ELSE res

\* variant: every probe error is propagated
ProbeFailure_Propagate(e, st) == Err(e)

\* variant: every probe error is swallowed
ProbeFailure_Swallow(e, st) == Ok(st)

\* lines 166-171: the loop value after a failed get_siginfo
ProbeFailure(e, st) ==
    IF ErrorKind(e) = ErrorKind(EINVAL) THEN Ok(st) ELSE Err(e)

(* ---- state ------------------------------------------------------------ *)
VARIABLES
    pc,        \* next OS call of the invocation, or "done" / "abort"
    attach,    \* argument attach
    options,   \* argument options
    timeout,   \* argument timeout
    epfdOpen,  \* the epoll descriptor epfd is open
    status,    \* status stored by waitpid, NoStatus before
    result,    \* value of the loop expression (let result = loop {..})
    ret,       \* value returned by handle_signal
    calls,     \* OS calls issued so far, in order
    nready     \* value returned by epoll_wait, NotWaited before

vars == <<pc, attach, options, timeout, epfdOpen, status, result, ret, calls, nready>>

Init ==
    /\ pc = "epoll_create"
    /\ attach \in AttachModes
    /\ options \in OptionMasks
    /\ timeout \in Timeouts
    /\ epfdOpen = FALSE
    /\ status = NoStatus
    /\ result = None
    /\ ret = None
    /\ calls = <<>>
    /\ nready = NotWaited

\* `?` on a failed call: return Err(e) straight out of handle_signal
Return(v) == pc' = "done" /\ ret' = v

\* line 93
EpollCreate ==
    /\ pc = "epoll_create"
    /\ \E e \in {0} \cup Errnos :
        /\ calls' = Append(calls, Call("epoll_create", 1, e))
        /\ IF e = 0
           THEN /\ epfdOpen' = TRUE
                /\ pc' = "epoll_ctl"
                /\ ret' = ret
           ELSE /\ epfdOpen' = epfdOpen
                /\ Return(Err(e))
    /\ UNCHANGED <<attach, options, timeout, status, result, nready>>

\* line 96
EpollCtl ==
    /\ pc = "epoll_ctl"
    /\ \E e \in {0} \cup Errnos :
        /\ calls' = Append(calls, Call("epoll_ctl", 0, e))
        /\ IF e = 0
           THEN pc' = "epoll_wait" /\ ret' = ret
           ELSE Return(Err(e))
    /\ UNCHANGED <<attach, options, timeout, epfdOpen, status, result, nready>>

\* line 97: a return of 0 (timed out) or 1 (ready) is success alike
EpollWait ==
    /\ pc = "epoll_wait"
    /\ \E n \in EpollWaitReturns(timeout) :
       \E e \in (IF n = -1 THEN Errnos ELSE {0}) :
        /\ calls' = Append(calls, Call("epoll_wait", timeout, e))
        /\ nready' = n
        /\ IF EpollWaitOk(n)
           THEN pc' = "waitpid" /\ ret' = ret
           ELSE Return(Err(e))
    /\ UNCHANGED <<attach, options, timeout, epfdOpen, status, result>>

\* lines 99-177 and, for a status that is not a stop, 182-186
Waitpid ==
    /\ pc = "waitpid"
    /\ \/ \E e \in Errnos :
            /\ calls' = Append(calls, Call("waitpid", 0, e))
            /\ Return(Err(e))
            /\ UNCHANGED <<status, result>>
       \/ \E st \in WaitStatuses :
            /\ calls' = Append(calls, Call("waitpid", st, 0))
            /\ status' = st
            /\ ret' = ret
            /\ IF WIFSTOPPED(st)
               THEN LET d == Classify(st, attach, options) IN
                    IF d = "break"
                    THEN pc' = "epoll_close" /\ result' = Ok(st)
                    ELSE pc' = (IF d = "probe" THEN "get_siginfo" ELSE "cont")
                         /\ result' = result
               ELSE /\ pc' = LoopTail(st)
                    /\ result' = IF LoopTail(st) = "epoll_close"
                                 THEN Ok(st) ELSE result
    /\ UNCHANGED <<attach, options, timeout, epfdOpen, nready>>

\* lines 165-173
GetSiginfo ==
    /\ pc = "get_siginfo"
    /\ \E e \in {0} \cup Errnos :
        /\ calls' = Append(calls, Call("get_siginfo", 0, e))
        /\ IF e = 0
           THEN pc' = "cont" /\ result' = result
           ELSE /\ pc' = "epoll_close"
                /\ result' = ProbeFailure(e, status)
    /\ UNCHANGED <<attach, options, timeout, epfdOpen, status, ret, nready>>

\* lines 179-186: cont(pid, signal)?, then the exit check on the same status
Cont ==
    /\ pc = "cont"
    /\ \E e \in {0} \cup Errnos :
        /\ calls' = Append(calls, Call("cont", ContSignal(status), e))
        /\ IF e # 0
           THEN Return(Err(e)) /\ result' = result
           ELSE /\ ret' = ret
                /\ pc' = LoopTail(status)
                /\ result' = IF LoopTail(status) = "epoll_close"
                             THEN Ok(status) ELSE result
    /\ UNCHANGED <<attach, options, timeout, epfdOpen, status, nready>>

\* lines 189-190: epoll_close(epfd)?; return result.  Whether a failed
\* close(2) released the descriptor is left to the OS.
EpollClose ==
    /\ pc = "epoll_close"
    /\ \/ /\ calls' = Append(calls, Call("epoll_close", 0, 0))
          /\ epfdOpen' = FALSE
          /\ Return(CloseReturn(0, result))
       \/ \E e \in Errnos, open \in BOOLEAN :
            /\ calls' = Append(calls, Call("epoll_close", 0, e))
            /\ epfdOpen' = open
            /\ Return(CloseReturn(e, result))
    /\ UNCHANGED <<attach, options, timeout, status, result, nready>>

Next ==
    \/ EpollCreate
    \/ EpollCtl
    \/ EpollWait
    \/ Waitpid
    \/ GetSiginfo
    \/ Cont
    \/ EpollClose

Spec == Init /\ [][Next]_vars

TypeOK ==
    /\ pc \in {"epoll_create", "epoll_ctl", "epoll_wait", "waitpid",
               "get_siginfo", "cont", "epoll_close", "done", "abort"}
    /\ attach \in AttachModes
    /\ options \in OptionMasks
    /\ timeout \in Timeouts
    /\ epfdOpen \in BOOLEAN
    /\ status \in WaitStatuses \cup {NoStatus}
    /\ result.kind \in {"none", "ok", "err"}
    /\ ret.kind \in {"none", "ok", "err"}
    /\ Len(calls) <= 7
    /\ nready \in {NotWaited, -1, 0, 1}
(* ======================================================================= *)
(* Properties                                                              *)
(* ======================================================================= *)
\* some call of the given name has been issued
Called(op) == \E i \in DOMAIN calls : calls[i].op = op

\* the call of the given name was issued and returned errno e
CalledWith(op, e) == \E i \in DOMAIN calls : calls[i].op = op /\ calls[i].errno = e

\* the invocation is over with epoll_close having failed, its error returned
CloseErrorReturned ==
    /\ calls # <<>>
    /\ calls[Len(calls)].op = "epoll_close"
    /\ calls[Len(calls)].errno # 0
    /\ ret = Err(calls[Len(calls)].errno)

\* event-code bits of a status word (bits 16 and above)
EventBits(st) == Shr(st, 16)

GovernedEvents == {PTRACE_EVENT_VFORK, PTRACE_EVENT_FORK, PTRACE_EVENT_CLONE,
                   PTRACE_EVENT_VFORK_DONE, PTRACE_EVENT_EXEC, PTRACE_EVENT_EXIT,
                   PTRACE_EVENT_SECCOMP}

\* the trace option that governs an extended event (PTRACE_O_TRACEVFORK = 4)
GoverningOption(ev) ==
    CASE ev = PTRACE_EVENT_VFORK -> 4
      [] ev = PTRACE_EVENT_FORK -> PTRACE_O_TRACEFORK
      [] ev = PTRACE_EVENT_CLONE -> PTRACE_O_TRACECLONE
      [] ev = PTRACE_EVENT_VFORK_DONE -> PTRACE_O_TRACEVFORKDONE
      [] ev = PTRACE_EVENT_EXEC -> PTRACE_O_TRACEEXEC
      [] ev = PTRACE_EVENT_EXIT -> PTRACE_O_TRACEEXIT
      [] ev = PTRACE_EVENT_SECCOMP -> PTRACE_O_TRACESECCOMP

\* waitpid has reported a SIGTRAP stop carrying a governed extended event
GovernedTrapStop ==
    /\ status # NoStatus
    /\ WIFSTOPPED(status)
    /\ WSTOPSIG(status) = SIGTRAP
    /\ EventBits(status) \in GovernedEvents

\* waitpid has reported a job-control stop
JobControlStop ==
    /\ status # NoStatus
    /\ WIFSTOPPED(status)
    /\ WSTOPSIG(status) \in {SIGSTOP, SIGTSTP, SIGTTIN, SIGTTOU}

\* the status was delivered: the loop broke with Ok(status), nothing resumed
Delivered ==
    /\ result = Ok(status)
    /\ pc \in {"epoll_close", "done"}
    /\ ~Called("cont")

\* C1: a SIGTRAP stop carrying a governed extended event whose option is
\* enabled is delivered: the loop yields Ok(status) unchanged and no resume
\* is issued.
C1_EnabledEventDelivered ==
    (GovernedTrapStop /\ HasFlag(options, GoverningOption(EventBits(status))))
        => Delivered

\* C2: a SIGTRAP stop carrying a governed extended event whose option is
\* disabled is never delivered (neither the loop value nor the return value
\* is Ok); the next call issued is cont, forwarding SIGTRAP.
C2_DisabledEventNotDelivered ==
    (GovernedTrapStop /\ ~HasFlag(options, GoverningOption(EventBits(status))))
        => /\ result.kind # "ok"
           /\ ret.kind # "ok"
           /\ pc \in {"cont", "abort", "done"}
           /\ (pc # "cont" => calls[Len(calls)].op = "cont"
                              /\ calls[Len(calls)].arg = SIGTRAP)

\* C2 witness: only exec-tracing enabled, Fork event, the resume succeeded
C2_Witness ==
    /\ GovernedTrapStop
    /\ EventBits(status) = PTRACE_EVENT_FORK
    /\ options = PTRACE_O_TRACEEXEC
    /\ CalledWith("cont", 0)

\* C3: after a successful cont the invocation does not end before another
\* waitpid has been issued.
C3_ResumeReentersWait ==
    \A i \in DOMAIN calls :
        (calls[i].op = "cont" /\ calls[i].errno = 0 /\ pc \in {"done", "abort"})
            => \E j \in DOMAIN calls : j > i /\ calls[j].op = "waitpid"

\* C4: at every return of handle_signal the epoll handle is closed.
C4_HandleClosedAtReturn ==
    pc = "done" => ~epfdOpen

\* waitpid has reported that the target exited or was terminated by a signal
TargetGone ==
    /\ status # NoStatus
    /\ ~WIFSTOPPED(status)
    /\ WIFEXITED(status) \/ WIFSIGNALED(status)

\* C5 (as stated): when waitpid reports exit or termination, handle_signal
\* returns Ok with that status and issues neither cont nor get_siginfo.
C5_ExitReturnsOk ==
    (TargetGone /\ pc = "done")
        => ret = Ok(status) /\ ~Called("cont") /\ ~Called("get_siginfo")

\* C5 (amended): when waitpid reports exit or termination, the loop breaks
\* with Ok of that status, neither cont nor get_siginfo is issued, and the
\* return value is Ok of that status unless epoll_close fails, in which case
\* the close error is returned.
C5_ExitDelivered ==
    TargetGone
        => /\ Delivered
           /\ ~Called("get_siginfo")
           /\ (pc = "done" => ret = Ok(status) \/ CloseErrorReturned)

\* C5 witness: terminated by SIGSEGV with a core dump, status returned
C5_Witness ==
    /\ TargetGone
    /\ status = SignaledStatus(SIGSEGV, TRUE)
    /\ pc = "done"
    /\ ret = Ok(status)

\* C6: under Seize a stop carrying the group-stop marker is delivered without
\* probe or resume, for a job-control stop signal and for SIGTRAP alike.
C6_SeizeGroupStopDelivered ==
    (/\ attach = PTRACE_SEIZE
     /\ status # NoStatus
     /\ WIFSTOPPED(status)
     /\ WSTOPSIG(status) \in {SIGTRAP, SIGSTOP, SIGTSTP, SIGTTIN, SIGTTOU}
     /\ EventBits(status) = PTRACE_EVENT_STOP)
        => Delivered /\ ~Called("get_siginfo")

\* C7: under Attach a job-control stop carrying the group-stop marker is
\* never delivered without get_siginfo having been called first.
C7_AttachMarkerProbed ==
    (/\ attach # PTRACE_SEIZE
     /\ JobControlStop
     /\ EventBits(status) = PTRACE_EVENT_STOP
     /\ (result = Ok(status) \/ ret = Ok(status)))
        => Called("get_siginfo")

\* a job-control stop with zero event code was probed under Attach and the
\* probe failed with EINVAL
ProbeRaced ==
    /\ attach # PTRACE_SEIZE
    /\ JobControlStop
    /\ EventBits(status) = 0
    /\ CalledWith("get_siginfo", EINVAL)

\* C8 (as stated): when the probe of a job-control stop fails with EINVAL
\* under Attach, handle_signal returns Ok with the captured status, no error,
\* and issues no resume.
C8_ProbeEinvalReturnsOk ==
    (ProbeRaced /\ pc = "done") => ret = Ok(status) /\ ~Called("cont")

\* C8 (amended): when the probe of a job-control stop fails with EINVAL under
\* Attach, the loop breaks with Ok of the captured status, the probe error is
\* not propagated and no resume is issued; the return value is Ok of that
\* status unless epoll_close fails, in which case the close error is returned.
C8_ProbeEinvalDelivered ==
    ProbeRaced
        => /\ Delivered
           /\ (pc = "done" => ret = Ok(status) \/ CloseErrorReturned)

\* C8 witness: SIGTSTP probed under Attach, EINVAL, status returned
C8_Witness ==
    /\ ProbeRaced
    /\ WSTOPSIG(status) = SIGTSTP
    /\ pc = "done"
    /\ ret = Ok(status)

\* call i failed fatally: any failure but a get_siginfo failing with EINVAL
FatalFailure(i) ==
    /\ calls[i].op \in {"epoll_create", "epoll_ctl", "epoll_wait", "waitpid",
                        "cont", "get_siginfo"}
    /\ calls[i].errno # 0
    /\ ~(calls[i].op = "get_siginfo" /\ calls[i].errno = EINVAL)

\* no waitpid, get_siginfo or cont is issued after call i
NothingRetriedAfter(i) ==
    \A j \in DOMAIN calls :
        j > i => calls[j].op \notin {"waitpid", "get_siginfo", "cont"}

\* C9 (as stated): when an OS call fails fatally, handle_signal returns that
\* same error and issues no waitpid, probe or resume after the failure.
C9_SameErrorReturned ==
    \A i \in DOMAIN calls :
        FatalFailure(i)
            => /\ NothingRetriedAfter(i)
               /\ (pc = "done" => ret = Err(calls[i].errno))

\* C9 (amended): when an OS call fails fatally, no waitpid, probe or resume
\* is issued after the failure, the invocation does not abort, and the
\* return value is that same error, except that after a failed get_siginfo
\* the handle is closed first and a failure of that close is returned instead.
C9_ErrorReturned ==
    \A i \in DOMAIN calls :
        FatalFailure(i)
            => /\ NothingRetriedAfter(i)
               /\ pc \in {"done", "epoll_close"}
               /\ (pc = "epoll_close" => calls[i].op = "get_siginfo"
                                         /\ result = Err(calls[i].errno))
               /\ (pc = "done" =>
                     \/ ret = Err(calls[i].errno)
                     \/ calls[i].op = "get_siginfo" /\ CloseErrorReturned)

\* C9 witness: the probe failed with ESRCH and that error was returned
C9_Witness ==
    /\ CalledWith("get_siginfo", ESRCH)
    /\ CalledWith("epoll_close", 0)
    /\ pc = "done"
    /\ ret = Err(ESRCH)

\* C10: with every wait status stopped, exited or terminated, the fail-fast
\* point unreachable!() is never reached.
C10_NoAbort ==
    pc # "abort"

\* C11: whenever handle_signal returns Ok(status), the status is the one
\* stored by the most recent waitpid and no cont was issued after that
\* waitpid.
C11_OkIsLastWaitStatus ==
    (pc = "done" /\ ret.kind = "ok")
        => \E i \in DOMAIN calls :
              /\ calls[i].op = "waitpid"
              /\ calls[i].errno = 0
              /\ calls[i].arg = ret.val
              /\ ret.val = status
              /\ \A j \in DOMAIN calls :
                    j > i => calls[j].op \notin {"waitpid", "cont"}

\* C11 witness: a syscall stop returned as Ok, the target left stopped
C11_Witness ==
    /\ pc = "done"
    /\ ret = Ok(status)
    /\ WIFSTOPPED(status)
    /\ WSTOPSIG(status) = SIGTRAP + 128

\* C13: every waitpid is directly preceded by a successful epoll_wait, itself
\* directly preceded by a successful epoll_ctl; and when epoll_wait returns 0
\* (timed out, no event) nothing is returned at that point: waitpid is the
\* next call.
C13_WaitOrder ==
    /\ \A i \in DOMAIN calls :
          calls[i].op = "waitpid"
              => /\ i >= 3
                 /\ calls[i - 1].op = "epoll_wait" /\ calls[i - 1].errno = 0
                 /\ calls[i - 2].op = "epoll_ctl" /\ calls[i - 2].errno = 0
    /\ nready = 0 => pc = "waitpid" \/ Called("waitpid")

\* C13 witness: the readiness wait timed out and waitpid was still performed
C13_Witness ==
    /\ nready = 0
    /\ timeout = 0
    /\ CalledWith("waitpid", 0)

\* a job-control stop with zero event code was probed under Attach and the
\* probe succeeded
ProbeSucceeded ==
    /\ attach # PTRACE_SEIZE
    /\ JobControlStop
    /\ EventBits(status) = 0
    /\ CalledWith("get_siginfo", 0)

\* C14 (as stated): after a successful probe of a job-control stop under
\* Attach the tracee is resumed with no signal: cont is the next call and its
\* signal argument is 0.
C14_ProbedStopResumedWithoutSignal ==
    ProbeSucceeded
        => /\ pc = "cont" \/ Called("cont")
           /\ \A i \in DOMAIN calls : calls[i].op = "cont" => calls[i].arg = 0

\* C14 (amended): after a successful probe of a job-control stop under Attach
\* the tracee is resumed with the stop signal forwarded: cont is the next
\* call and its signal argument is the stop signal of the status, never 0.
C14_ProbedStopResumedWithStopSignal ==
    ProbeSucceeded
        => /\ pc = "cont" \/ Called("cont")
           /\ \A i \in DOMAIN calls :
                 calls[i].op = "cont"
                     => calls[i].arg = WSTOPSIG(status) /\ calls[i].arg # 0

\* C14 witness: SIGSTOP probed successfully under Attach, then resumed
C14_Witness ==
    /\ ProbeSucceeded
    /\ WSTOPSIG(status) = SIGSTOP
    /\ CalledWith("cont", 0)

\* C15: a SIGTRAP or job-control stop whose event code is nonzero and not a
\* recognized extended event is delivered and never resumed.
C15_UnknownEventDelivered ==
    (/\ status # NoStatus
     /\ WIFSTOPPED(status)
     /\ WSTOPSIG(status) \in {SIGTRAP, SIGSTOP, SIGTSTP, SIGTTIN, SIGTTOU}
     /\ EventBits(status) \notin GovernedEvents \cup {0, PTRACE_EVENT_STOP})
        => Delivered

\* waitpid has reported a stop with signal SIGTRAP | 0x80
SyscallStop ==
    /\ status # NoStatus
    /\ WIFSTOPPED(status)
    /\ WSTOPSIG(status) = SIGTRAP + 128

\* C16 (as stated): for a SIGTRAP|0x80 stop handle_signal returns Ok with the
\* status, without resume, if and only if PTRACE_O_TRACESYSGOOD is enabled;
\* when it is disabled the tracee is resumed.
C16_SyscallStopReturnedIffSysgood ==
    (SyscallStop /\ pc \in {"done", "abort"})
        => /\ (ret = Ok(status) /\ ~Called("cont"))
                  <=> HasFlag(options, PTRACE_O_TRACESYSGOOD)
           /\ ~HasFlag(options, PTRACE_O_TRACESYSGOOD) => Called("cont")

\* C16 (amended): for a SIGTRAP|0x80 stop the loop breaks with Ok of the
\* status, without resume, if and only if PTRACE_O_TRACESYSGOOD is enabled,
\* and that Ok is returned unless epoll_close fails (then the close error is
\* returned); when the option is disabled cont is the next call, forwarding
\* that signal, and nothing is delivered.
C16_SyscallStopDeliveredIffSysgood ==
    SyscallStop
        => /\ Delivered <=> HasFlag(options, PTRACE_O_TRACESYSGOOD)
           /\ HasFlag(options, PTRACE_O_TRACESYSGOOD)
                 => (pc = "done" => ret = Ok(status) \/ CloseErrorReturned)
           /\ ~HasFlag(options, PTRACE_O_TRACESYSGOOD)
                 => /\ result.kind # "ok" /\ ret.kind # "ok"
                    /\ pc \in {"cont", "abort", "done"}
                    /\ pc # "cont" => calls[Len(calls)].op = "cont"
                                      /\ calls[Len(calls)].arg = SIGTRAP + 128

\* C16 witness: syscall-marking enabled, the syscall stop returned as Ok
C16_Witness ==
    /\ SyscallStop
    /\ HasFlag(options, PTRACE_O_TRACESYSGOOD)
    /\ pc = "done"
    /\ ret = Ok(status)
    /\ ~Called("cont")

\* waitpid has reported a stop whose signal is none of SIGTRAP, SIGTRAP|0x80
\* and the job-control stop signals
OtherSignalStop ==
    /\ status # NoStatus
    /\ WIFSTOPPED(status)
    /\ WSTOPSIG(status) \notin {SIGTRAP, SIGTRAP + 128,
                                SIGSTOP, SIGTSTP, SIGTTIN, SIGTTOU}

\* C17: a stop with any other signal is never delivered and never probed;
\* cont is the next call and forwards exactly the stop signal of the status.
C17_OtherSignalForwarded ==
    OtherSignalStop
        => /\ result.kind # "ok"
           /\ ret.kind # "ok"
           /\ ~Called("get_siginfo")
           /\ pc \in {"cont", "abort", "done"}
           /\ pc # "cont" => /\ calls[Len(calls)].op = "cont"
                             /\ calls[Len(calls)].arg = WSTOPSIG(status)
                             /\ calls[Len(calls) - 1].op = "waitpid"

\* C17 witness: SIGINT stop under Attach resumed with SIGINT
C17_Witness ==
    /\ OtherSignalStop
    /\ attach = PTRACE_ATTACH
    /\ WSTOPSIG(status) = SIGINT
    /\ CalledWith("cont", 0)
    /\ calls[Len(calls)].arg = SIGINT

\* C18: get_siginfo is issued only right after a waitpid that reported a
\* stopped status with zero event-code bits, and never under Seize.
C18_ProbeOnlyWithoutEventCode ==
    /\ pc = "get_siginfo"
          => WIFSTOPPED(status) /\ EventBits(status) = 0 /\ attach # PTRACE_SEIZE
    /\ \A i \in DOMAIN calls :
          calls[i].op = "get_siginfo"
              => /\ attach # PTRACE_SEIZE
                 /\ i > 1
                 /\ calls[i - 1].op = "waitpid"
                 /\ calls[i - 1].errno = 0
                 /\ WIFSTOPPED(calls[i - 1].arg)
                 /\ EventBits(calls[i - 1].arg) = 0

\* C18 witness: a SIGTTIN stop without event code was probed
C18_Witness ==
    /\ Called("get_siginfo")
    /\ status = StoppedStatus(SIGTTIN, 0)

\* number of calls of the given name issued so far
Count(op) == Cardinality({i \in DOMAIN calls : calls[i].op = op})

\* C19: per invocation waitpid, epoll_ctl and cont are each called at most
\* once: the loop body runs at most once.
C19_BodyRunsOnce ==
    /\ Count("waitpid") <= 1
    /\ Count("epoll_ctl") <= 1
    /\ Count("epoll_wait") <= 1
    /\ Count("cont") <= 1

\* C19 witness: the body ran to its end, with one waitpid and one cont
C19_Witness ==
    /\ Count("waitpid") = 1
    /\ Count("epoll_ctl") = 1
    /\ CalledWith("cont", 0)
    /\ pc = "abort"

\* C20: Ok is returned only after a successful epoll_close; when the loop
\* has produced its value and epoll_close fails, the close error is returned
\* and the loop value is discarded.
C20_CloseErrorWins ==
    /\ (pc = "done" /\ ret.kind = "ok")
          => calls[Len(calls)].op = "epoll_close" /\ calls[Len(calls)].errno = 0
    /\ (calls # <<>> /\ calls[Len(calls)].op = "epoll_close"
                     /\ calls[Len(calls)].errno # 0)
          => /\ pc = "done"
             /\ result.kind \in {"ok", "err"}
             /\ ret = Err(calls[Len(calls)].errno)

\* C20 witness: a delivered status discarded for the close error
C20_Witness ==
    /\ result = Ok(status)
    /\ CloseErrorReturned
====
